---- MODULE Spec2Model ----
(***************************************************************************)
(* Release tooling of the repository:                                      *)
(*   scripts/generate-changelog.js  (class ChangelogGenerator and Main)    *)
(*   scripts/prepare-release.sh     (the --auto release type detection)    *)
(* Texts are TLA+ strings; the JavaScript and shell string operations are  *)
(* operators over them (Len, SubSeq and \o act on strings in TLC).         *)
(***************************************************************************)
EXTENDS Integers, Sequences, FiniteSets, TLC

(***************************************************************************)
(* String primitives of the two languages.                                 *)
(***************************************************************************)

\* s[i] as a one-character string (1-based)
CharAt(s, i) == SubSeq(s, i, i)

\* the part of s from position i (1-based) to its end
From(s, i) == IF i > Len(s) THEN "" ELSE SubSeq(s, i, Len(s))

\* String.prototype.startsWith
StartsWith(s, p) == Len(s) >= Len(p) /\ SubSeq(s, 1, Len(p)) = p

\* String.prototype.endsWith
EndsWith(s, p) == Len(s) >= Len(p) /\ From(s, Len(s) - Len(p) + 1) = p

\* String.prototype.includes; also grep's unanchored match within one line
Includes(s, p) ==
  \E i \in 1..(Len(s) - Len(p) + 1) : SubSeq(s, i, i + Len(p) - 1) = p

\* position of the first occurrence of the character ch in s, 0 when absent
IndexOf(s, ch) ==
  LET hits == {i \in 1..Len(s) : CharAt(s, i) = ch}
  IN IF hits = {} THEN 0 ELSE CHOOSE i \in hits : \A j \in hits : i <= j

\* String.prototype.split on a one-character separator
RECURSIVE Split(_, _)
Split(s, sep) ==
  LET p == IndexOf(s, sep)
  IN IF p = 0 THEN <<s>>
     ELSE <<SubSeq(s, 1, p - 1)>> \o Split(From(s, p + 1), sep)

\* the characters String.prototype.trim removes and the regex class \s matches
Whitespace == {" ", "\n", "\t", "\r"}

RECURSIVE TrimStart(_)
TrimStart(s) ==
  IF Len(s) > 0 /\ CharAt(s, 1) \in Whitespace THEN TrimStart(From(s, 2)) ELSE s

RECURSIVE TrimEnd(_)
TrimEnd(s) ==
  IF Len(s) > 0 /\ CharAt(s, Len(s)) \in Whitespace
  THEN TrimEnd(SubSeq(s, 1, Len(s) - 1)) ELSE s

\* String.prototype.trim
Trim(s) == TrimEnd(TrimStart(s))

\* String.prototype.substring(0, n)
Substring0(s, n) == IF Len(s) <= n THEN s ELSE SubSeq(s, 1, n)

\* Array.prototype.join
RECURSIVE Join(_, _)
Join(parts, sep) ==
  IF Len(parts) = 0 THEN ""
  ELSE IF Len(parts) = 1 THEN parts[1]
  ELSE parts[1] \o sep \o Join(Tail(parts), sep)

\* number of lines of text that are exactly the line l
CountLines(text, l) ==
  LET ls == Split(text, "\n") IN Cardinality({i \in DOMAIN ls : ls[i] = l})

(***************************************************************************)
(* generate-changelog.js: the commit classifier.                           *)
(***************************************************************************)

\* the alternatives of the regular expression of getCommitType, in order
CommitTypes ==
  <<"feat", "fix", "docs", "style", "refactor", "perf", "test", "chore", "ci",
    "revert">>

\* getCommitType without the 'other' of the no-match case
getCommitTypeNoDefault(subject) ==
  LET hits == {i \in DOMAIN CommitTypes : StartsWith(subject, CommitTypes[i])}
  IN IF hits = {} THEN ""
     ELSE CommitTypes[CHOOSE i \in hits : \A j \in hits : i <= j]

\* subject.match(/^(feat|fix|...|revert)/): match[1], or 'other'
getCommitType(subject) ==
  LET hits == {i \in DOMAIN CommitTypes : StartsWith(subject, CommitTypes[i])}
  IN IF hits = {} THEN "other"
     ELSE CommitTypes[CHOOSE i \in hits : \A j \in hits : i <= j]

\* subject.match(/^[^(]+\(([^)]+)\)/): match[1], or ''.  [^(]+ runs to the
\* first '(' (at least one character), [^)]+ from there to the next ')'.
getCommitScope(subject) ==
  LET open == IndexOf(subject, "(")
      rest == From(subject, open + 1)
      close == IndexOf(rest, ")")
  IN IF open > 1 /\ close > 1 THEN SubSeq(rest, 1, close - 1) ELSE ""

\* subject.replace(/^[^:]+:\s*/, ''): drops everything up to the first ':'
\* (which must not be the first character) and the whitespace after it
getCommitMessage(subject) ==
  LET colon == IndexOf(subject, ":")
  IN IF colon > 1 THEN TrimStart(From(subject, colon + 1)) ELSE subject

(***************************************************************************)
(* The repository the scripts run in.  A raw commit is what git stores:    *)
(* its hash, its subject line and its message body (no trailing newline).  *)
(* repo lists, newest first, the non-merge commits after the last tag, or  *)
(* the whole history when the repository has no tag (tagged = FALSE).      *)
(***************************************************************************)

\* longest commit range enumerated
MaxCommits == 2

Raw(h, s, b) == [hash |-> h, subject |-> s, body |-> b]

RawCommits ==
  { Raw("abc1234def", "feat: add x", ""),
    Raw("b2c3d4e5f6", "fix: patch leak", ""),
    Raw("c3d4e5f607", "chore: update deps", ""),
    Raw("d4e5f60718", "refactor: cleanup", "BREAKING CHANGE: removed foo()"),
    Raw("e5f6071829", "feat(auth): add JWT login", ""),
    Raw("f607182930", "docs: explain BREAKING CHANGE footer", ""),
    Raw("0718293a4b", "perf: speed up parse", ""),
    Raw("18293a4b5c", "feat(api): new endpoints", "BREAKING CHANGE: drops v1") }

\* commits whose text strains the parsing of the log and the classifier
ParseCommits ==
  { Raw("abc1234def", "feat: add x", ""),
    Raw("1111111aaa", "fixed typo", ""),
    Raw("2222222bbb", "feature work", ""),
    Raw("3333333ccc", "Update (deps): bump", ""),
    Raw("4444444ddd", "Initial commit", ""),
    Raw("5555555eee", "fix: handle a|b input", ""),
    Raw("d4e5f60718", "refactor: cleanup", "BREAKING CHANGE: removed foo()"),
    Raw("6666666fff", "fix: drop flag",
        "Removes the old flag.\nBREAKING CHANGE: the flag is gone"),
    Raw("7777777abc", "chore: tidy", "no breaking change here"),
    Raw("8888888def", "feat: new flags",
        "Drop the x|y switch. BREAKING CHANGE: both are gone"),
    Raw("e5f6071829", "feat(auth): add JWT login", ""),
    Raw("9999999aab", "fix: handle foo(bar)", ""),
    Raw("aaaaaaabbc", "feat(ui:nav): add menu", ""),
    Raw("bbbbbbbccd", "fix: parse key: value pairs", "") }

\* commit ranges over a pool: sequences of distinct commits (a hash names
\* one commit)
RangesOf(pool) ==
  UNION { { r \in [1..n -> pool] :
              \A i, j \in 1..n : i # j => r[i] # r[j] } : n \in 0..MaxCommits }

CommitRanges == RangesOf(RawCommits)

\* git's %b: the body followed by a newline, nothing for an empty body
PrettyBody(c) == IF c.body = "" THEN "" ELSE c.body \o "\n"

\* git log --pretty=format:"%H|%s|%b": one entry per commit, newline-separated
GitLogPretty(range) ==
  Join([i \in 1..Len(range) |->
          range[i].hash \o "|" \o range[i].subject \o "|" \o PrettyBody(range[i])],
       "\n")

\* the depth of the tagless range HEAD~50..HEAD
TaglessDepth == 50

\* stdout of `git log ${range} --pretty=... --no-merges 2>/dev/null || true`:
\* with a tag the range is lastTag..HEAD; without one it is HEAD~50..HEAD,
\* which git rejects unless HEAD has a 50th ancestor, and `|| true` then
\* leaves the output empty
GitLogOutput(range, hasTag) ==
  IF hasTag THEN GitLogPretty(range)
  ELSE IF Len(range) > TaglessDepth
       THEN GitLogPretty(SubSeq(range, 1, TaglessDepth))
       ELSE ""

(***************************************************************************)
(* generate-changelog.js: ChangelogGenerator.                              *)
(***************************************************************************)

\* the object built from one line of the log (the callback of map)
ParseLine(line) ==
  LET parts == Split(line, "|")
      hash == parts[1]
      subject == parts[2]
      body == parts[3]
  IN [hash |-> Substring0(hash, 7),
      subject |-> Trim(subject),
      body |-> IF body # "" THEN Trim(body) ELSE "",
      type |-> getCommitType(subject),
      scope |-> getCommitScope(subject),
      message |-> getCommitMessage(subject),
      breaking |-> Includes(body, "BREAKING CHANGE")]

\* the callback throws a TypeError on a line with fewer than three fields:
\* subject.trim() on undefined, or body.includes() on undefined
LineThrows(line) == Len(Split(line, "|")) < 3

getCommitsSinceLastTag(range, hasTag) ==
  LET output == Trim(GitLogOutput(range, hasTag))
      lines == Split(output, "\n")
  IN IF output = "" THEN <<>>
     ELSE IF \E i \in DOMAIN lines : LineThrows(lines[i])
          THEN <<>>     \* catch (error): warning, return []
          ELSE [i \in DOMAIN lines |-> ParseLine(lines[i])]

\* the keys of groups, in insertion order
SectionNames ==
  <<"Breaking Changes", "Features", "Bug Fixes", "Performance",
    "Documentation", "Other">>

\* SectionOf with the type looked at before the breaking flag
SectionOfTypeFirst(commit) ==
  IF commit.type = "feat" THEN "Features"
  ELSE IF commit.type = "fix" THEN "Bug Fixes"
  ELSE IF commit.type = "perf" THEN "Performance"
  ELSE IF commit.type = "docs" THEN "Documentation"
  ELSE IF commit.breaking THEN "Breaking Changes"
  ELSE "Other"

\* the if / else-if chain of the forEach callback
SectionOf(commit) ==
  IF commit.breaking THEN "Breaking Changes"
  ELSE IF commit.type = "feat" THEN "Features"
  ELSE IF commit.type = "fix" THEN "Bug Fixes"
  ELSE IF commit.type = "perf" THEN "Performance"
  ELSE IF commit.type = "docs" THEN "Documentation"
  ELSE "Other"

\* commits.forEach(... groups[...].push(commit) ...)
RECURSIVE PushAll(_, _)
PushAll(groups, commits) ==
  IF Len(commits) = 0 THEN groups
  ELSE PushAll([groups EXCEPT ![SectionOf(Head(commits))] =
                               Append(@, Head(commits))],
               Tail(commits))

\* groupCommits without the filter of the empty groups
groupCommitsKeepsEmpty(commits) ==
  LET groups == PushAll([s \in {SectionNames[i] : i \in DOMAIN SectionNames}
                           |-> <<>>], commits)
  IN [i \in DOMAIN SectionNames |->
        [section |-> SectionNames[i], commits |-> groups[SectionNames[i]]]]

\* Object.entries(groups).filter(([_, commits]) => commits.length > 0)
groupCommits(commits) ==
  LET groups == PushAll([s \in {SectionNames[i] : i \in DOMAIN SectionNames}
                           |-> <<>>], commits)
      entries == [i \in DOMAIN SectionNames |->
                    [section |-> SectionNames[i],
                     commits |-> groups[SectionNames[i]]]]
  IN SelectSeq(entries, LAMBDA e : Len(e.commits) > 0)

formatCommit(commit) ==
  LET scope == IF commit.scope # "" THEN " **" \o commit.scope \o "**:" ELSE ""
      link == " ([" \o commit.hash \o "](../../commit/" \o commit.hash \o "))"
  IN "- " \o commit.message \o scope \o link

\* the lines of one group: formatCommit(commit) + '\n' for each commit
RECURSIVE CommitLines(_)
CommitLines(commits) ==
  IF Len(commits) = 0 THEN ""
  ELSE formatCommit(Head(commits)) \o "\n" \o CommitLines(Tail(commits))

\* the body of grouped.forEach: header, the lines, a blank line
RECURSIVE GroupEntries(_)
GroupEntries(grouped) ==
  IF Len(grouped) = 0 THEN ""
  ELSE "### " \o Head(grouped).section \o "\n\n"
       \o CommitLines(Head(grouped).commits) \o "\n"
       \o GroupEntries(Tail(grouped))

generateEntries(commits) ==
  IF Len(commits) = 0 THEN "" ELSE GroupEntries(groupCommits(commits))

\* generateReleaseSection without the blank line that closes the section
generateReleaseSectionNoBlank(entries, ver, date) ==
  IF Trim(entries) = "" THEN ""
  ELSE "## [" \o ver \o "] - " \o date \o "\n\n" \o entries

generateReleaseSection(entries, ver, date) ==
  IF Trim(entries) = "" THEN ""
  ELSE "## [" \o ver \o "] - " \o date \o "\n\n" \o entries \o "\n"

\* package.json: absent or unparseable, parseable without a "version" field,
\* or parseable with one
PkgStates == {"missing", "noversion", "hasversion"}

\* the version a parseable package.json of the environment declares
PkgVersion == "2.0.0"

\* a JavaScript value that is a string or undefined
Str(s) == [defined |-> TRUE, value |-> s]
Undefined == [defined |-> FALSE, value |-> ""]

\* `${v}` in a template literal
Template(v) == IF v.defined THEN v.value ELSE "undefined"

\* try { JSON.parse(readFileSync('package.json')).version } catch { '1.0.0' }
detectVersion(pkgState) ==
  IF pkgState = "missing" THEN Str("1.0.0")
  ELSE IF pkgState = "noversion" THEN Undefined
  ELSE Str(PkgVersion)

\* options.version || this.detectVersion(); arg = "" stands for no --version
ConstructVersion(arg, pkgState) ==
  IF arg # "" THEN Str(arg) ELSE detectVersion(pkgState)

\* try { readFileSync(changelogPath) } catch { '' }
readExistingChangelog(exists, text) == IF exists THEN text ELSE ""

\* existingChangelog.startsWith('# Changelog') ? '' : '# Changelog\n\n'
Header(existingChangelog) ==
  IF StartsWith(existingChangelog, "# Changelog") THEN "" ELSE "# Changelog\n\n"

\* NewContent without the existing text
NewContentDropsHistory(releaseSection, existingChangelog) ==
  Header(existingChangelog) \o releaseSection

\* const newContent = header + releaseSection + existingChangelog
NewContent(releaseSection, existingChangelog) ==
  Header(existingChangelog) \o releaseSection \o existingChangelog

\* NoCommits without the early return
NoCommitsNever(commits) == FALSE

\* commits.length === 0: generate() logs 'No commits found' and returns
NoCommits(commits) == Len(commits) = 0

(***************************************************************************)
(* prepare-release.sh: the release type detection.                         *)
(***************************************************************************)

\* the commits `git log "$(git describe --tags --abbrev=0)..HEAD"` lists:
\* without a tag git describe prints nothing, the range is "..HEAD", that is
\* HEAD..HEAD, and git log succeeds with no commit (the `||` branch is not
\* taken)
ListedRange(range, hasTag) == IF hasTag THEN range ELSE <<>>

\* git log --oneline: abbreviated hash, a space, the subject
OneLine(range) ==
  Join([i \in 1..Len(range) |->
          Substring0(range[i].hash, 7) \o " " \o range[i].subject], "\n")

\* echo "$text" | grep -q "^.*pattern": some line contains the pattern
Grep(text, pattern) ==
  LET lines == Split(text, "\n")
  IN \E i \in DOMAIN lines : Includes(lines[i], pattern)

\* the if / elif / else of the --auto branch
DetectReleaseType(history) ==
  IF Grep(history, "BREAKING CHANGE") THEN "major"
  ELSE IF Grep(history, "feat") THEN "minor"
  ELSE "patch"

(***************************************************************************)
(* State.                                                                  *)
(***************************************************************************)

VARIABLES
  repo, tagged,              \* the git repository
  fileExists, fileText,      \* CHANGELOG.md
  writable,                  \* whether CHANGELOG.md can be opened for writing
  pkg,                       \* package.json, a member of PkgStates
  clock,                     \* today's date as getDate() formats it
  argVersion, dryRun,        \* generate-changelog.js: --version, --dry-run
  pc,                        \* generate-changelog.js: position in Main/generate
  version, commits,          \* this.version; const commits of generate()
  entries, releaseSection,   \* consts of generate()
  existingChangelog, newContent,
  displayed,                 \* what the dry run printed as the content
  writes,                    \* completed writeFileSync calls
  exitCode,                  \* exit code of node, -1 while it runs
  before,                    \* CHANGELOG.md as it was when the run began
  argAuto, argType,          \* prepare-release.sh: --auto, --type
  checksOk,                  \* whether the checks of lines 52-176 let it go on
  relPc,                     \* prepare-release.sh: position in the script
  autoDetect, releaseType,   \* AUTO_DETECT, RELEASE_TYPE
  relExit                    \* exit code of the script, -1 while it runs

VARIABLES
  valArg,                    \* validate-conventional-commits.sh: the argument
  sinceResolves,             \* whether git resolves the ref $SINCE
  valPc,                     \* validate-conventional-commits.sh: position
  COMMITS, valIdx,           \* the log text; the line the loop reads next
  VALID_COUNT, INVALID_COUNT, INVALID_COMMITS,
  valChecked,                \* lines printed with a check or a cross
  valSummary,                \* whether the Summary block was printed
  valListed,                 \* the hashes printed under "Invalid commits:"
  valSuccess,                \* whether the success message was printed
  valExit                    \* exit status of the script

VARIABLES
  behindRemote,              \* prepare-release.sh: HEAD is behind its upstream
  hasStdVersion,             \* npm ls standard-version succeeds
  gitUser,                   \* user.name and user.email: a member of GitUserStates
  npmAuth,                   \* npm whoami succeeds
  reply,                     \* the user's answer to the script's prompts
  warned,                    \* the checks that printed a warning
  passedPrinted              \* whether "All checks passed!" was printed

VARIABLES
  gens                       \* generate-changelog.js run as two processes:
                             \* each generator's position and constants

envVars == <<repo, tagged, pkg, clock, writable>>
fileVars == <<fileExists, fileText>>
genVars ==
  <<argVersion, dryRun, pc, version, commits, entries, releaseSection,
    existingChangelog, newContent, displayed, writes, exitCode, before>>
relVars == <<argAuto, argType, checksOk, relPc, autoDetect, releaseType, relExit>>
valVars ==
  <<valArg, sinceResolves, valPc, COMMITS, valIdx, VALID_COUNT, INVALID_COUNT,
    INVALID_COMMITS, valChecked, valSummary, valListed, valSuccess, valExit>>
conVars == <<gens>>
chkEnv == <<behindRemote, hasStdVersion, gitUser, npmAuth, reply>>
chkVars == <<chkEnv, warned, passedPrinted>>
vars ==
  <<envVars, fileVars, genVars, relVars, valVars, chkVars, conVars>>

\* dates the clock may show
Dates == {"2024-01-15"}

\* --version arguments ("" : none given) with the package.json beside them
VersionInputs ==
  { <<"1.1.0", "hasversion">>, <<"", "hasversion">>, <<"", "missing">>,
    <<"", "noversion">> }

\* a changelog as a first run of the generator leaves it
OneRelease ==
  "# Changelog\n\n## [1.0.0] - 2023-12-01\n\n### Bug Fixes\n\n"
  \o "- first fix ([0a1b2c3](../../commit/0a1b2c3))\n\n\n"

\* a hand-written changelog without the header
HandWritten == "Release notes\n\n## [0.9.0] - 2023-11-01\n\n- seed\n"

\* CHANGELOG.md before the run: <<exists, text>>
ExistingFiles ==
  { <<FALSE, "">>, <<TRUE, "">>, <<TRUE, OneRelease>>, <<TRUE, HandWritten>> }

\* values of the --type argument ("" : not given)
TypeArgs == {"", "major", "minor", "patch", "prerelease"}

GenIdle ==
  /\ argVersion = "" /\ dryRun = FALSE /\ pc = "idle"
  /\ version = Undefined /\ commits = <<>>
  /\ entries = "" /\ releaseSection = ""
  /\ existingChangelog = "" /\ newContent = ""
  /\ displayed = "" /\ writes = 0 /\ exitCode = -1

RelIdle ==
  /\ argAuto = FALSE /\ argType = "" /\ checksOk = TRUE /\ relPc = "idle"
  /\ autoDetect = FALSE /\ releaseType = "patch" /\ relExit = -1

\* git config user.name / user.email: a key is not set, both are set and one
\* is the empty string, both are set and non-empty
GitUserStates == {"unset", "empty", "set"}

\* the generator processes started on one changelog path
Procs == {1, 2}

GenStart ==
  [pc |-> "main", version |-> "", commits |-> <<>>, releaseSection |-> "",
   existingChangelog |-> "", newContent |-> "", exitCode |-> -1]

ConIdle == gens = [p \in Procs |-> [GenStart EXCEPT !.pc = "idle"]]

ChkIdle ==
  /\ behindRemote = FALSE /\ hasStdVersion = TRUE /\ gitUser = "set"
  /\ npmAuth = TRUE /\ reply = "n"
  /\ warned = {} /\ passedPrinted = FALSE

ValIdle ==
  /\ valArg = "" /\ sinceResolves = TRUE /\ valPc = "idle"
  /\ COMMITS = "" /\ valIdx = 1
  /\ VALID_COUNT = 0 /\ INVALID_COUNT = 0 /\ INVALID_COMMITS = <<>>
  /\ valChecked = 0 /\ valSummary = FALSE /\ valListed = <<>>
  /\ valSuccess = FALSE /\ valExit = -1

(***************************************************************************)
(* generate-changelog.js: Main and generate().                             *)
(***************************************************************************)

InitChangelog ==
  /\ repo \in CommitRanges /\ tagged \in BOOLEAN
  /\ \E f \in ExistingFiles :
       /\ fileExists = f[1] /\ fileText = f[2]
       /\ before = [exists |-> f[1], text |-> f[2]]
  /\ writable \in BOOLEAN
  /\ \E v \in VersionInputs : argVersion = v[1] /\ pkg = v[2]
  /\ clock \in Dates
  /\ dryRun \in BOOLEAN
  /\ pc = "main"
  /\ version = Undefined /\ commits = <<>>
  /\ entries = "" /\ releaseSection = ""
  /\ existingChangelog = "" /\ newContent = ""
  /\ displayed = "" /\ writes = 0 /\ exitCode = -1
  /\ RelIdle
  /\ ValIdle
  /\ ChkIdle
  /\ ConIdle

\* new ChangelogGenerator(options)
Construct ==
  /\ pc = "main"
  /\ version' = ConstructVersion(argVersion, pkg)
  /\ commits' = <<>>
  /\ pc' = "generate"
  /\ UNCHANGED <<envVars, fileVars, relVars, valVars, conVars, chkVars,
                 argVersion, dryRun, entries, releaseSection,
                 existingChangelog, newContent, displayed, writes, exitCode,
                 before>>

\* generate(): fetch the commits; return when there is none
FetchCommits ==
  /\ pc = "generate"
  /\ commits' = getCommitsSinceLastTag(repo, tagged)
  /\ IF NoCommits(commits')
     THEN pc' = "done" /\ exitCode' = 0
     ELSE pc' = "fetched" /\ exitCode' = exitCode
  /\ UNCHANGED <<envVars, fileVars, relVars, valVars, conVars, chkVars,
                 argVersion, dryRun, version, entries, releaseSection,
                 existingChangelog, newContent, displayed, writes, before>>

\* generate(): entries and release section
Compose ==
  /\ pc = "fetched"
  /\ entries' = generateEntries(commits)
  /\ releaseSection' = generateReleaseSection(entries', Template(version), clock)
  /\ pc' = "composed"
  /\ UNCHANGED <<envVars, fileVars, relVars, valVars, conVars, chkVars,
                 argVersion, dryRun, version, commits, existingChangelog,
                 newContent, displayed, writes, exitCode, before>>

\* ReadAndCombine with the header and the release section put into the file
\* before writeChangelog is called
ReadAndCombineWritesEarly ==
  /\ pc = "composed"
  /\ existingChangelog' = readExistingChangelog(fileExists, fileText)
  /\ newContent' = NewContent(releaseSection, existingChangelog')
  /\ fileExists' = TRUE
  /\ fileText' = Header(existingChangelog') \o releaseSection
  /\ pc' = "combined"
  /\ UNCHANGED <<envVars, relVars, valVars, conVars, chkVars, argVersion,
                 dryRun, version, commits, entries, releaseSection,
                 displayed, writes, exitCode, before>>

\* generate(): read the existing changelog and combine
ReadAndCombine ==
  /\ pc = "composed"
  /\ existingChangelog' = readExistingChangelog(fileExists, fileText)
  /\ newContent' = NewContent(releaseSection, existingChangelog')
  /\ pc' = "combined"
  /\ UNCHANGED <<envVars, fileVars, relVars, valVars, conVars, chkVars,
                 argVersion, dryRun, version, commits, entries,
                 releaseSection, displayed, writes, exitCode, before>>

\* writeChangelog without its dryRun branch: the file is written in any mode
WriteChangelogIgnoresDryRun ==
  /\ pc = "combined"
  /\ pc' = "done"
  /\ IF writable
     THEN /\ fileExists' = TRUE /\ fileText' = newContent
          /\ writes' = writes + 1
          /\ exitCode' = 0
          /\ displayed' = IF dryRun THEN newContent ELSE displayed
     ELSE /\ exitCode' = 1
          /\ UNCHANGED <<fileVars, writes, displayed>>
  /\ UNCHANGED <<envVars, relVars, valVars, conVars, chkVars, argVersion,
                 dryRun, version, commits, entries, releaseSection,
                 existingChangelog, newContent, before>>

\* generate(): writeChangelog(newContent); a dry run prints it instead; a
\* writeFileSync that cannot open the file throws, and node exits with 1
WriteChangelog ==
  /\ pc = "combined"
  /\ pc' = "done"
  /\ IF dryRun
     THEN /\ displayed' = newContent
          /\ exitCode' = 0
          /\ UNCHANGED <<fileVars, writes>>
     ELSE IF writable
     THEN /\ fileExists' = TRUE /\ fileText' = newContent
          /\ writes' = writes + 1
          /\ exitCode' = 0
          /\ UNCHANGED displayed
     ELSE /\ exitCode' = 1
          /\ UNCHANGED <<fileVars, writes, displayed>>
  /\ UNCHANGED <<envVars, relVars, valVars, conVars, chkVars, argVersion,
                 dryRun, version, commits, entries, releaseSection,
                 existingChangelog, newContent, before>>

NextChangelog ==
  \/ Construct
  \/ FetchCommits
  \/ Compose
  \/ ReadAndCombine
  \/ WriteChangelog

SpecChangelog == InitChangelog /\ [][NextChangelog]_vars

\* the generator run over commits of any text, beside no CHANGELOG.md
InitParse ==
  /\ repo \in RangesOf(ParseCommits) /\ tagged \in BOOLEAN
  /\ fileExists = FALSE /\ fileText = ""
  /\ before = [exists |-> FALSE, text |-> ""]
  /\ writable = TRUE
  /\ argVersion = "1.1.0" /\ pkg = "hasversion"
  /\ clock \in Dates
  /\ dryRun \in BOOLEAN
  /\ pc = "main"
  /\ version = Undefined /\ commits = <<>>
  /\ entries = "" /\ releaseSection = ""
  /\ existingChangelog = "" /\ newContent = ""
  /\ displayed = "" /\ writes = 0 /\ exitCode = -1
  /\ RelIdle
  /\ ValIdle
  /\ ChkIdle
  /\ ConIdle

SpecParse == InitParse /\ [][NextChangelog]_vars

\* the most runs of the generator made in a row on one changelog
MaxRuns == 3

\* the commits a run finds since the last tag
RunCommits ==
  { Raw("abc1234def", "feat: add x", ""),
    Raw("b2c3d4e5f6", "fix: patch leak", "") }

RunRanges == {r \in RangesOf(RunCommits) : Len(r) >= 1}

\* values of --version of successive runs
RunVersions == {"1.1.0", "1.2.0"}

\* non-dry runs, one after the other, from an absent or empty changelog
InitRuns ==
  /\ repo \in RunRanges /\ tagged = TRUE
  /\ \E exists \in BOOLEAN :
       /\ fileExists = exists /\ fileText = ""
       /\ before = [exists |-> exists, text |-> ""]
  /\ writable = TRUE
  /\ argVersion \in RunVersions /\ pkg = "hasversion"
  /\ clock \in Dates
  /\ dryRun = FALSE
  /\ pc = "main"
  /\ version = Undefined /\ commits = <<>>
  /\ entries = "" /\ releaseSection = ""
  /\ existingChangelog = "" /\ newContent = ""
  /\ displayed = "" /\ writes = 0 /\ exitCode = -1
  /\ RelIdle
  /\ ValIdle
  /\ ChkIdle
  /\ ConIdle

\* the script is started again once the run before it has ended, over the
\* file as that run left it
Restart ==
  /\ pc = "done" /\ writes < MaxRuns
  /\ pc' = "main"
  /\ repo' \in RunRanges
  /\ argVersion' \in RunVersions
  /\ before' = [exists |-> fileExists, text |-> fileText]
  /\ version' = Undefined /\ commits' = <<>>
  /\ entries' = "" /\ releaseSection' = ""
  /\ existingChangelog' = "" /\ newContent' = ""
  /\ displayed' = "" /\ exitCode' = -1
  /\ UNCHANGED <<tagged, pkg, clock, writable, fileVars, relVars, valVars,
                 conVars, chkVars, dryRun, writes>>

NextRuns ==
  \/ NextChangelog
  \/ Restart

SpecRuns == InitRuns /\ [][NextRuns]_vars

(***************************************************************************)
(* generate-changelog.js: two invocations on one changelog path.           *)
(***************************************************************************)

\* the --version each invocation is given
ProcVersion(p) == IF p = 1 THEN "1.1.0" ELSE "1.2.0"

InitConcurrent ==
  /\ repo \in RangesOf(RunCommits) /\ tagged = TRUE
  /\ \E f \in ExistingFiles :
       /\ fileExists = f[1] /\ fileText = f[2]
       /\ before = [exists |-> f[1], text |-> f[2]]
  /\ writable = TRUE /\ pkg = "hasversion" /\ clock \in Dates
  /\ GenIdle
  /\ RelIdle
  /\ ValIdle
  /\ ChkIdle
  /\ gens = [p \in Procs |-> GenStart]

\* new ChangelogGenerator(options) and generate() up to the release section:
\* nothing of it reads or writes the changelog
ConCompose(p) ==
  /\ gens[p].pc = "main"
  /\ LET found == getCommitsSinceLastTag(repo, tagged)
         ver == ConstructVersion(ProcVersion(p), pkg)
     IN gens' = [gens EXCEPT ![p] =
          IF NoCommits(found)
          THEN [@ EXCEPT !.pc = "done", !.version = Template(ver),
                         !.commits = found, !.exitCode = 0]
          ELSE [@ EXCEPT !.pc = "composed", !.version = Template(ver),
                         !.commits = found,
                         !.releaseSection =
                            generateReleaseSection(generateEntries(found),
                                                   Template(ver), clock)]]
  /\ UNCHANGED <<envVars, fileVars, genVars, relVars, valVars, chkVars>>

\* generate(): read the existing changelog and combine
ConReadAndCombine(p) ==
  /\ gens[p].pc = "composed"
  /\ LET existing == readExistingChangelog(fileExists, fileText)
     IN gens' = [gens EXCEPT ![p] =
          [@ EXCEPT !.pc = "combined", !.existingChangelog = existing,
                    !.newContent =
                       NewContent(gens[p].releaseSection, existing)]]
  /\ UNCHANGED <<envVars, fileVars, genVars, relVars, valVars, chkVars>>

\* ConWrite with the file read again and combined in the step that writes
ConWriteRereads(p) ==
  /\ gens[p].pc = "combined"
  /\ fileExists' = TRUE
  /\ fileText' = NewContent(gens[p].releaseSection,
                            readExistingChangelog(fileExists, fileText))
  /\ gens' = [gens EXCEPT ![p] = [@ EXCEPT !.pc = "done", !.exitCode = 0]]
  /\ UNCHANGED <<envVars, genVars, relVars, valVars, chkVars>>

\* generate(): writeChangelog(newContent), not a dry run
ConWrite(p) ==
  /\ gens[p].pc = "combined"
  /\ fileExists' = TRUE
  /\ fileText' = gens[p].newContent
  /\ gens' = [gens EXCEPT ![p] = [@ EXCEPT !.pc = "done", !.exitCode = 0]]
  /\ UNCHANGED <<envVars, genVars, relVars, valVars, chkVars>>

NextConcurrent ==
  \E p \in Procs :
    \/ ConCompose(p)
    \/ ConReadAndCombine(p)
    \/ ConWrite(p)

SpecConcurrent == InitConcurrent /\ [][NextConcurrent]_vars

(***************************************************************************)
(* prepare-release.sh.                                                     *)
(***************************************************************************)

InitRelease ==
  /\ repo \in CommitRanges /\ tagged \in BOOLEAN
  /\ fileExists = FALSE /\ fileText = ""
  /\ before = [exists |-> FALSE, text |-> ""]
  /\ writable = TRUE /\ pkg = "hasversion" /\ clock \in Dates
  /\ GenIdle
  /\ ValIdle
  /\ ChkIdle
  /\ ConIdle
  /\ argAuto \in BOOLEAN /\ argType \in TypeArgs
  /\ checksOk \in BOOLEAN
  /\ relPc = "args"
  /\ autoDetect = FALSE /\ releaseType = "patch" /\ relExit = -1

\* the defaults and the argument loop
ParseArgs ==
  /\ relPc = "args"
  /\ autoDetect' = argAuto
  /\ releaseType' = (IF argType # "" THEN argType ELSE "patch")
  /\ relPc' = "checks"
  /\ UNCHANGED <<envVars, fileVars, genVars, valVars, conVars, chkVars,
                 argAuto, argType, checksOk, relExit>>

\* the warnings printed up to the git user check: remote synchronization
\* and standard-version
EarlyWarnings(behind, stdVersion) ==
  (IF behind THEN {"remote"} ELSE {})
    \cup (IF stdVersion THEN {} ELSE {"standard-version"})

\* the warnings of the git user check and of the npm authentication check
LateWarnings(user, auth) ==
  (IF user = "empty" THEN {"git-user"} ELSE {})
    \cup (IF auth THEN {} ELSE {"npm-auth"})

\* the checklist under set -e. A failed required check ends the script with
\* exit 1, after the remote warning or before it; a warning is followed by a
\* prompt and the script goes on whatever the reply; GIT_USER=$(git config
\* user.name) returns 1 for a key that is not set and ends the script
RunChecks ==
  /\ relPc = "checks"
  /\ IF ~checksOk
     THEN /\ relPc' = "done" /\ relExit' = 1
          /\ warned' \in SUBSET (EarlyWarnings(behindRemote, TRUE))
     ELSE IF gitUser = "unset"
     THEN /\ relPc' = "done" /\ relExit' = 1
          /\ warned' = EarlyWarnings(behindRemote, hasStdVersion)
     ELSE /\ relPc' = "summary" /\ relExit' = relExit
          /\ warned' = EarlyWarnings(behindRemote, hasStdVersion)
                         \cup LateWarnings(gitUser, npmAuth)
  /\ UNCHANGED <<envVars, fileVars, genVars, valVars, conVars, chkEnv,
                 passedPrinted, argAuto, argType, checksOk, autoDetect,
                 releaseType>>

\* the summary, the --auto detection and the closing messages
AutoDetect ==
  /\ relPc = "summary"
  /\ releaseType' =
       (IF autoDetect
        THEN DetectReleaseType(OneLine(ListedRange(repo, tagged)))
        ELSE releaseType)
  /\ passedPrinted' = TRUE
  /\ relPc' = "done"
  /\ relExit' = 0
  /\ UNCHANGED <<envVars, fileVars, genVars, valVars, conVars, chkEnv,
                 warned, argAuto, argType, checksOk, autoDetect>>

NextRelease ==
  \/ ParseArgs
  \/ RunChecks
  \/ AutoDetect

SpecRelease == InitRelease /\ [][NextRelease]_vars

\* the script in any environment of its warning checks
InitChecks ==
  /\ repo \in RangesOf(RunCommits) /\ tagged = TRUE
  /\ fileExists = FALSE /\ fileText = ""
  /\ before = [exists |-> FALSE, text |-> ""]
  /\ writable = TRUE /\ pkg = "hasversion" /\ clock \in Dates
  /\ GenIdle
  /\ ValIdle
  /\ ConIdle
  /\ argAuto \in BOOLEAN /\ argType = ""
  /\ checksOk \in BOOLEAN
  /\ relPc = "args"
  /\ autoDetect = FALSE /\ releaseType = "patch" /\ relExit = -1
  /\ behindRemote \in BOOLEAN /\ hasStdVersion \in BOOLEAN
  /\ gitUser \in GitUserStates /\ npmAuth \in BOOLEAN
  /\ reply \in {"y", "n"}
  /\ warned = {} /\ passedPrinted = FALSE

SpecChecks == InitChecks /\ [][NextRelease]_vars

(***************************************************************************)
(* validate-conventional-commits.sh.                                       *)
(***************************************************************************)

\* the depth of the fallback `git log ... -20`
FallbackDepth == 20

\* stdout of `git log --pretty=format:"%H %s"`
GitLogHashSubject(range) ==
  Join([i \in 1..Len(range) |-> range[i].hash \o " " \o range[i].subject],
       "\n")

\* $(git log "$SINCE"..HEAD ... 2>/dev/null || git log ... -20): the commits
\* since the ref, or, when git cannot resolve it, the last 20 of the history
CommitsText(range, resolves) ==
  IF resolves THEN GitLogHashSubject(range)
  ELSE GitLogHashSubject(SubSeq(range, 1,
         IF Len(range) < FallbackDepth THEN Len(range) ELSE FallbackDepth))

RECURSIVE StripSpaces(_)
StripSpaces(s) ==
  IF Len(s) > 0 /\ CharAt(s, 1) = " " THEN StripSpaces(From(s, 2))
  ELSE IF Len(s) > 0 /\ CharAt(s, Len(s)) = " "
  THEN StripSpaces(SubSeq(s, 1, Len(s) - 1))
  ELSE s

\* IFS=' ' read -r HASH SUBJECT: the first word, and the rest of the line
ReadHashSubject(line) ==
  LET l == StripSpaces(line)
      sp == IndexOf(l, " ")
  IN IF sp = 0 THEN [HASH |-> l, SUBJECT |-> ""]
     ELSE [HASH |-> SubSeq(l, 1, sp - 1),
           SUBJECT |-> StripSpaces(From(l, sp + 1))]

\* the end of PATTERN, ": .{1,}": colon, space, at least one character
PatternTail(s) == StartsWith(s, ": ") /\ Len(s) >= 3

\* [[ $SUBJECT =~ $PATTERN ]] with
\* PATTERN="^(feat|fix|...|revert)(\(.+\))?: .{1,}"
MatchesPattern(subject) ==
  \E i \in DOMAIN CommitTypes :
    /\ StartsWith(subject, CommitTypes[i])
    /\ LET rest == From(subject, Len(CommitTypes[i]) + 1)
       IN \/ PatternTail(rest)
          \/ /\ StartsWith(rest, "(")
             /\ \E k \in 3..Len(rest) :
                  CharAt(rest, k) = ")" /\ PatternTail(From(rest, k + 1))

\* exit status of ((X++)): 1 when the expression, the old value, is 0
PostIncrementStatus(old) == IF old = 0 THEN 1 ELSE 0

\* values of the argument: none, --since <ref>, an unknown option
ValArgs == {"", "--since", "--bogus"}

InitValidate ==
  /\ repo \in RangesOf(ParseCommits) /\ tagged = TRUE
  /\ fileExists = FALSE /\ fileText = ""
  /\ before = [exists |-> FALSE, text |-> ""]
  /\ writable = TRUE /\ pkg = "hasversion" /\ clock \in Dates
  /\ GenIdle
  /\ RelIdle
  /\ ChkIdle
  /\ ConIdle
  /\ valArg \in ValArgs /\ sinceResolves \in BOOLEAN
  /\ valPc = "args"
  /\ COMMITS = "" /\ valIdx = 1
  /\ VALID_COUNT = 0 /\ INVALID_COUNT = 0 /\ INVALID_COMMITS = <<>>
  /\ valChecked = 0 /\ valSummary = FALSE /\ valListed = <<>>
  /\ valSuccess = FALSE /\ valExit = -1

\* the argument loop: an unknown option ends the script with exit 1
ValParseArgs ==
  /\ valPc = "args"
  /\ IF valArg \in {"", "--since"}
     THEN valPc' = "log" /\ valExit' = valExit
     ELSE valPc' = "done" /\ valExit' = 1
  /\ UNCHANGED <<envVars, fileVars, genVars, relVars, chkVars, conVars,
                 valArg, sinceResolves, COMMITS, valIdx, VALID_COUNT,
                 INVALID_COUNT, INVALID_COMMITS, valChecked, valSummary,
                 valListed, valSuccess>>

\* COMMITS=$(git log ...); an empty text ends the script with exit 0
ValGetCommits ==
  /\ valPc = "log"
  /\ COMMITS' = CommitsText(repo, sinceResolves)
  /\ IF COMMITS' = ""
     THEN valPc' = "done" /\ valExit' = 0
     ELSE valPc' = "loop" /\ valExit' = valExit
  /\ UNCHANGED <<envVars, fileVars, genVars, relVars, chkVars, conVars,
                 valArg, sinceResolves, valIdx, VALID_COUNT, INVALID_COUNT,
                 INVALID_COMMITS, valChecked, valSummary, valListed,
                 valSuccess>>

\* one turn of the while loop under set -e, and, after the last line, the
\* summary with the exit of the script
ValCheckCommit ==
  /\ valPc = "loop"
  /\ LET lines == Split(COMMITS, "\n")
         rec == ReadHashSubject(lines[valIdx])
         ok == MatchesPattern(rec.SUBJECT)
         status == IF ok THEN PostIncrementStatus(VALID_COUNT)
                   ELSE PostIncrementStatus(INVALID_COUNT)
     IN /\ valChecked' = valChecked + 1
        /\ VALID_COUNT' = (IF ok THEN VALID_COUNT + 1 ELSE VALID_COUNT)
        /\ INVALID_COUNT' = (IF ok THEN INVALID_COUNT ELSE INVALID_COUNT + 1)
        /\ IF status # 0
           THEN \* set -e: the failed command ends the script
                /\ valPc' = "done" /\ valExit' = status
                /\ UNCHANGED <<valIdx, INVALID_COMMITS, valSummary, valListed,
                               valSuccess>>
           ELSE /\ INVALID_COMMITS' =
                     (IF ok THEN INVALID_COMMITS
                      ELSE Append(INVALID_COMMITS, rec.HASH))
                /\ IF valIdx < Len(lines)
                   THEN /\ valIdx' = valIdx + 1
                        /\ UNCHANGED <<valPc, valSummary, valListed,
                                       valSuccess, valExit>>
                   ELSE /\ valPc' = "done"
                        /\ valSummary' = TRUE
                        /\ UNCHANGED valIdx
                        /\ IF INVALID_COUNT' > 0
                           THEN /\ valListed' = INVALID_COMMITS'
                                /\ valExit' = 1
                                /\ UNCHANGED valSuccess
                           ELSE /\ valSuccess' = TRUE
                                /\ valExit' = 0
                                /\ UNCHANGED valListed
  /\ UNCHANGED <<envVars, fileVars, genVars, relVars, chkVars, conVars,
                 valArg, sinceResolves, COMMITS>>

NextValidate ==
  \/ ValParseArgs
  \/ ValGetCommits
  \/ ValCheckCommit

SpecValidate == InitValidate /\ [][NextValidate]_vars

(***************************************************************************)
(* Properties of the release type detection (SpecRelease).                 *)
(***************************************************************************)

\* the commits the --auto branch has listed, as the classifier records them
Listed == ListedRange(repo, tagged)
IsBreaking(raw) == Includes(raw.body, "BREAKING CHANGE")
TypeOf(raw) == getCommitType(raw.subject)

\* the script ran with --auto to its end
AutoDetected == relPc = "done" /\ relExit = 0 /\ autoDetect

\* the types that never call for a version change on their own
NonBumpingTypes ==
  {"chore", "ci", "docs", "style", "test", "refactor", "revert", "other"}

\* C1: whenever the listed commits hold at least one commit whose body
\* contains "BREAKING CHANGE", the --auto detection resolves to major,
\* whatever the other commits are.
C1_BreakingResolvesMajor ==
  (AutoDetected /\ \E i \in DOMAIN Listed : IsBreaking(Listed[i]))
    => releaseType = "major"

\* C2: for no listed commit at all, and for listed commits that are all of
\* a non-bumping type and not breaking, the --auto detection resolves to
\* none, never to patch, minor or major.
C2_NoFalseBump ==
  (AutoDetected
     /\ \A i \in DOMAIN Listed :
          TypeOf(Listed[i]) \in NonBumpingTypes /\ ~IsBreaking(Listed[i]))
    => releaseType = "none"

\* C3: whenever no listed commit is breaking and at least one is of type
\* feat, the --auto detection resolves to minor, whatever the other commits
\* and their order.
C3_FeatResolvesMinor ==
  (AutoDetected
     /\ (\A i \in DOMAIN Listed : ~IsBreaking(Listed[i]))
     /\ (\E i \in DOMAIN Listed : TypeOf(Listed[i]) = "feat"))
    => releaseType = "minor"

(***************************************************************************)
(* Properties of the changelog generator (SpecChangelog).                  *)
(***************************************************************************)

\* generate() has composed the new content of a non-empty commit list
Combined == pc = "combined" /\ Len(commits) > 0

\* generate() ended after writing CHANGELOG.md
Written == pc = "done" /\ writes > 0

\* C4: for a non-empty commit list, when the existing text is empty or
\* starts with "# Changelog", the composed content starts with the
\* "# Changelog" line and holds exactly one such line.
C4_SingleHeaderFirst ==
  (Combined
     /\ (existingChangelog = "" \/ StartsWith(existingChangelog, "# Changelog")))
    => /\ StartsWith(newContent, "# Changelog\n")
       /\ CountLines(newContent, "# Changelog") = 1

\* C5: when the existing text begins with the "# Changelog" header, the
\* composed content is the existing text with the release section inserted
\* right after that header (and the blank space that follows it); otherwise
\* it is "# Changelog\n\n", the release section, the whole existing text.
C5_SectionAfterHeader ==
  Combined =>
    IF StartsWith(existingChangelog, "# Changelog")
    THEN \E k \in Len("# Changelog")..Len(existingChangelog) :
           /\ Trim(SubSeq(existingChangelog, 1, k)) = "# Changelog"
           /\ newContent = SubSeq(existingChangelog, 1, k) \o releaseSection
                             \o From(existingChangelog, k + 1)
    ELSE newContent = "# Changelog\n\n" \o releaseSection \o existingChangelog

ClaimedSection(commit) ==
  CASE commit.breaking -> "Breaking Changes"
    [] ~commit.breaking /\ commit.type = "feat" -> "Features"
    [] ~commit.breaking /\ commit.type = "fix" -> "Bug Fixes"
    [] ~commit.breaking /\ commit.type = "perf" -> "Performance"
    [] ~commit.breaking /\ commit.type = "docs" -> "Documentation"
    [] OTHER -> "Other"

\* the places <<group, index>> at which the grouping holds the commit
PlacesOf(grouped, commit) ==
  {pl \in (DOMAIN grouped) \X (1..Len(commits)) :
     /\ pl[2] <= Len(grouped[pl[1]].commits)
     /\ grouped[pl[1]].commits[pl[2]] = commit}

\* the position of a commit in the fetched list
PositionOf(commit) == CHOOSE i \in DOMAIN commits : commits[i] = commit

\* C7: groupCommits puts every fetched commit at exactly one place, in the
\* category the claim names (Breaking Changes for a breaking commit of any
\* type), and keeps the input order within each category.
C7_OneCategoryEach ==
  pc = "fetched" =>
    LET grouped == groupCommits(commits)
    IN /\ \A i \in DOMAIN commits :
            /\ Cardinality(PlacesOf(grouped, commits[i])) = 1
            /\ \A pl \in PlacesOf(grouped, commits[i]) :
                 grouped[pl[1]].section = ClaimedSection(commits[i])
       /\ \A g \in DOMAIN grouped :
            \A a, b \in DOMAIN grouped[g].commits :
              a < b => PositionOf(grouped[g].commits[a])
                         < PositionOf(grouped[g].commits[b])
       /\ \A g, h \in DOMAIN grouped :
            g # h => grouped[g].section # grouped[h].section

\* a breaking feat was fetched together with another commit
C7_Witness ==
  /\ pc = "fetched" /\ Len(commits) > 1
  /\ \E i \in DOMAIN commits : commits[i].breaking /\ commits[i].type = "feat"

\* C8: with an empty commit list generateEntries returns "" and generate()
\* ends without a write: CHANGELOG.md is as it was, and the exit code is 0.
C8_EmptyIsNoOp ==
  (pc = "done" /\ Len(commits) = 0) =>
    /\ generateEntries(commits) = ""
    /\ writes = 0 /\ displayed = ""
    /\ fileExists = before.exists /\ fileText = before.text
    /\ exitCode = 0

\* a run over an empty commit list ended beside a changelog with history
C8_Witness ==
  pc = "done" /\ Len(commits) = 0 /\ ~dryRun /\ writable /\ fileText = OneRelease

\* the case of the example: nothing to read, the one commit
\* "abc1234 feat: add x", version 1.1.0, date 2024-01-15
ExampleCase ==
  /\ pc = "combined"
  /\ existingChangelog = ""
  /\ Len(commits) = 1
  /\ commits[1].hash = "abc1234" /\ commits[1].type = "feat"
  /\ commits[1].scope = "" /\ commits[1].message = "add x"
  /\ version = Str("1.1.0") /\ clock = "2024-01-15"

ExampleBody ==
  "# Changelog\n\n## [1.1.0] - 2024-01-15\n\n### Features\n\n"
  \o "- add x ([abc1234](../../commit/abc1234))"

\* C9 as stated: in the example the output ends in exactly two newlines.
C9_ExampleTwoNewlines == ExampleCase => newContent = ExampleBody \o "\n\n"

\* C9 as amended: a release section is its header line, a blank line, the
\* grouped commits (each category closed by a blank line) and one more blank
\* line; in the example the output ends in exactly three newlines.
C9_ExampleThreeNewlines ==
  /\ ExampleCase => newContent = ExampleBody \o "\n\n\n"
  /\ pc = "composed" =>
       /\ releaseSection =
            "## [" \o Template(version) \o "] - " \o clock \o "\n\n"
              \o entries \o "\n"
       /\ EndsWith(entries, "))\n\n") /\ ~EndsWith(entries, "\n\n\n")

C9_Witness == ExampleCase

\* the line the claim gives a commit
ClaimedLine(commit) ==
  "- " \o (IF commit.scope # "" THEN "**" \o commit.scope \o "**: " ELSE "")
       \o commit.message
       \o " ([" \o commit.hash \o "](../../commit/" \o commit.hash \o "))"

\* C10: formatCommit renders "- ", the bold scope prefix "**scope**: " when
\* the scope is not empty, the description, and the link.
C10_ScopeBeforeDescription ==
  pc = "fetched" =>
    \A i \in DOMAIN commits : formatCommit(commits[i]) = ClaimedLine(commits[i])

(***************************************************************************)
(* Properties of the classifier and of the parsing of the log (SpecParse). *)
(***************************************************************************)

\* the conventional pattern of the claims: a recognized type, an optional
\* parenthesized scope, a colon, and a non-empty description
ConventionalAfterType(rest) ==
  \/ StartsWith(rest, ":") /\ TrimStart(From(rest, 2)) # ""
  \/ /\ StartsWith(rest, "(")
     /\ LET close == IndexOf(rest, ")")
        IN /\ close > 2
           /\ StartsWith(From(rest, close + 1), ":")
           /\ TrimStart(From(rest, close + 2)) # ""

Conventional(subject) ==
  \E i \in DOMAIN CommitTypes :
    /\ StartsWith(subject, CommitTypes[i])
    /\ ConventionalAfterType(From(subject, Len(CommitTypes[i]) + 1))

\* C11: a fetched commit has a type other than 'other' only when its
\* subject matches the whole conventional pattern.
C11_TypeOnlyOnFullMatch ==
  pc = "fetched" =>
    \A i \in DOMAIN commits :
      commits[i].type # "other" => Conventional(commits[i].subject)

\* C12: a fetched commit whose subject does not match the conventional
\* pattern has type 'other', an empty scope, and its subject as description.
C12_UnmatchedDegrades ==
  pc = "fetched" =>
    \A i \in DOMAIN commits :
      ~Conventional(commits[i].subject) =>
        /\ commits[i].type = "other"
        /\ commits[i].scope = ""
        /\ commits[i].message = commits[i].subject

\* the log has been read and parsed
Fetched == pc \notin {"main", "generate"}

\* C13: every commit of the range has a record whose breaking flag is true
\* exactly when the commit's body contains "BREAKING CHANGE", wherever in
\* the body the marker stands.
C13_BreakingIffMarker ==
  (Fetched /\ tagged) =>
    \A i \in DOMAIN repo :
      \E j \in DOMAIN commits :
        /\ commits[j].hash = Substring0(repo[i].hash, 7)
        /\ commits[j].breaking = IsBreaking(repo[i])

ClosedTypes == {CommitTypes[i] : i \in DOMAIN CommitTypes} \cup {"other"}

\* C14: getCommitType returns a member of the closed eleven-value set for
\* every subject, those of the repository and those of the parsed records.
C14_TypeClosure ==
  /\ \A i \in DOMAIN repo : getCommitType(repo[i].subject) \in ClosedTypes
  /\ \A i \in DOMAIN commits : commits[i].type \in ClosedTypes

C14_Witness ==
  pc = "fetched" /\ \E i \in DOMAIN commits : commits[i].type = "other"

\* C20: getCommitsSinceLastTag returns one record per commit of the range,
\* in log order, with the commit's short hash, subject and body untruncated.
C20_OneRecordPerCommit ==
  (Fetched /\ tagged) =>
    /\ Len(commits) = Len(repo)
    /\ \A i \in DOMAIN commits :
         /\ commits[i].hash = Substring0(repo[i].hash, 7)
         /\ commits[i].subject = repo[i].subject
         /\ commits[i].body = Trim(repo[i].body)

(***************************************************************************)
(* Properties of the version and of the dry run (SpecChangelog).           *)
(***************************************************************************)

\* no --version, and package.json gives no version
NoBaseline == argVersion = "" /\ pkg \in {"missing", "noversion"}

\* C15: a run with commits, without --version and without a version in
\* package.json, ends in failure and writes nothing.
C15_NoVersionFailsHard ==
  (pc = "done" /\ Len(commits) > 0 /\ NoBaseline) =>
    /\ exitCode # 0
    /\ writes = 0
    /\ fileExists = before.exists /\ fileText = before.text

\* the content a run composes from its commits, version, date and the file
ComposedContent ==
  NewContent(generateReleaseSection(generateEntries(commits),
                                    Template(version), clock),
             readExistingChangelog(before.exists, before.text))

\* C16: a dry run never writes or creates the changelog file, and what it
\* displays is the content composed for the write step.
C16_DryRunWritesNothing ==
  dryRun =>
    /\ writes = 0
    /\ fileExists = before.exists /\ fileText = before.text
    /\ (pc = "done" /\ Len(commits) > 0) =>
         displayed = newContent /\ newContent = ComposedContent

C16_Witness ==
  /\ dryRun /\ pc = "done" /\ Len(commits) > 0 /\ writable
  /\ displayed = ComposedContent
  /\ ~before.exists /\ ~fileExists

(***************************************************************************)
(* Properties of validate-conventional-commits.sh (SpecValidate).          *)
(***************************************************************************)

\* the script ran past its arguments and ended, over a ref git resolves
Validated == valPc = "done" /\ valArg # "--bogus" /\ sinceResolves

AllMatch == \A i \in DOMAIN repo : MatchesPattern(repo[i].subject)

\* the hashes of the commits of the range whose subject does not match
RECURSIVE NonMatching(_)
NonMatching(range) ==
  IF range = <<>> THEN <<>>
  ELSE (IF MatchesPattern(Head(range).subject) THEN <<>>
        ELSE <<Head(range).hash>>) \o NonMatching(Tail(range))

\* C18: over a range of at least one commit whose subjects all match, the
\* script checks every commit, prints the summary with all commits valid
\* and none invalid, prints the success message and exits with status 0.
C18_AllValidExitsZero ==
  (Validated /\ Len(repo) >= 1 /\ AllMatch) =>
    /\ valChecked = Len(repo)
    /\ valSummary
    /\ VALID_COUNT = Len(repo) /\ INVALID_COUNT = 0
    /\ valSuccess
    /\ valExit = 0

\* C19: over a range with a non-matching subject the script checks every
\* commit, prints counts that sum to the number of commits, lists exactly
\* the hashes of the non-matching commits and exits with status 1; it exits
\* with status 1 in no other case.
C19_InvalidListedExitsOne ==
  Validated =>
    /\ ~AllMatch =>
         /\ valChecked = Len(repo)
         /\ valSummary
         /\ VALID_COUNT + INVALID_COUNT = Len(repo)
         /\ valListed = NonMatching(repo)
         /\ valExit = 1
    /\ valExit = 1 => ~AllMatch

(***************************************************************************)
(* Properties of the scope and of the description (SpecParse).             *)
(***************************************************************************)

\* the subject starts with a recognized type, "(", the scope and ")"
ScopeFollowsType(subject, scope) ==
  \E i \in DOMAIN CommitTypes :
    StartsWith(subject, CommitTypes[i] \o "(" \o scope \o ")")

\* C21: a fetched commit with a conventional subject has a scope only when
\* a parenthesized group immediately follows its type, and the scope is then
\* that group's content; a group later in the subject gives no scope.
C21_ScopeOnlyAfterType ==
  Fetched =>
    \A i \in DOMAIN commits :
      (Conventional(commits[i].subject) /\ commits[i].scope # "") =>
        ScopeFollowsType(commits[i].subject, commits[i].scope)

\* a conventional subject without "type:" or "type(scope):" and without the
\* whitespace after that colon
DescriptionOf(subject) ==
  LET t == CHOOSE i \in DOMAIN CommitTypes : StartsWith(subject, CommitTypes[i])
      rest == From(subject, Len(CommitTypes[t]) + 1)
  IN IF StartsWith(rest, ":") THEN TrimStart(From(rest, 2))
     ELSE TrimStart(From(rest, IndexOf(rest, ")") + 2))

\* C22: the description of a fetched commit whose subject matches the
\* conventional pattern is the subject without its "type(scope):" prefix
\* and the whitespace after the colon.
C22_DescriptionStripsPrefix ==
  Fetched =>
    \A i \in DOMAIN commits :
      Conventional(commits[i].subject) =>
        commits[i].message = DescriptionOf(commits[i].subject)

(***************************************************************************)
(* Properties of the rendered categories (SpecChangelog).                  *)
(***************************************************************************)

\* the entries of this run have been rendered
Composed == pc \in {"composed", "combined"} \/ (pc = "done" /\ Len(commits) > 0)

\* the "### ..." lines of a text, in order
CategoryHeaders(text) ==
  SelectSeq(Split(text, "\n"), LAMBDA l : StartsWith(l, "### "))

\* the categories that hold a commit, in the fixed order, as header lines
NonEmptyCategories ==
  LET used == SelectSeq(SectionNames,
                LAMBDA n : \E i \in DOMAIN commits : SectionOf(commits[i]) = n)
  IN [i \in DOMAIN used |-> "### " \o used[i]]

\* C23: the category headers of the rendered entries are exactly the
\* non-empty categories, in the fixed order, whatever the commit order.
C23_CategoriesInFixedOrder ==
  Composed => CategoryHeaders(entries) = NonEmptyCategories

C23_Witness ==
  /\ pc = "composed" /\ Len(commits) = 2
  /\ SectionOf(commits[1]) = "Bug Fixes" /\ SectionOf(commits[2]) = "Features"
  /\ CategoryHeaders(entries) = <<"### Features", "### Bug Fixes">>

(***************************************************************************)
(* Properties of successive runs (SpecRuns).                               *)
(***************************************************************************)

\* the "## [..." lines of a text, in order
SectionHeaders(text) ==
  SelectSeq(Split(text, "\n"), LAMBDA l : StartsWith(l, "## ["))

\* C24: after n >= 1 successive runs from an absent or empty changelog the
\* file starts with "# Changelog", has exactly one such header line, and
\* holds n release sections, the newest first.
C24_OneHeaderAboveAllSections ==
  (pc = "done" /\ writes >= 1) =>
    /\ StartsWith(fileText, "# Changelog\n")
    /\ CountLines(fileText, "# Changelog") = 1
    /\ Len(SectionHeaders(fileText)) = writes
    /\ SectionHeaders(fileText)[1] = "## [" \o argVersion \o "] - " \o clock

(***************************************************************************)
(* Properties of the patch rule of the --auto detection (SpecRelease).     *)
(***************************************************************************)

\* C25: whenever no listed commit is breaking, none is of type feat and at
\* least one is of type fix or perf, the --auto detection resolves to
\* patch, whatever words occur inside the subjects.
C25_FixOrPerfResolvesPatch ==
  (AutoDetected
     /\ (\A i \in DOMAIN Listed :
           ~IsBreaking(Listed[i]) /\ TypeOf(Listed[i]) # "feat")
     /\ (\E i \in DOMAIN Listed : TypeOf(Listed[i]) \in {"fix", "perf"}))
    => releaseType = "patch"

(***************************************************************************)
(* Properties of the write step (SpecChangelog).                           *)
(***************************************************************************)

\* C26: a run writes the file at most once; until that write the file is as
\* it was before the run, and what the write leaves is the content composed
\* from the commits, the version, the date and the text read.
C26_OneWriteAfterCompose ==
  /\ writes <= 1
  /\ writes = 0 => (fileExists = before.exists /\ fileText = before.text)
  /\ writes = 1 =>
       /\ pc = "done" /\ fileExists
       /\ fileText = newContent /\ newContent = ComposedContent

C26_Witness ==
  /\ pc = "done" /\ writes = 1 /\ exitCode = 0
  /\ before.exists /\ before.text # ""
  /\ fileText = ComposedContent /\ fileText # before.text

(***************************************************************************)
(* Properties of the tagless repository (SpecChangelog).                   *)
(***************************************************************************)

\* C27: in a repository without a tag and with 1 to 50 commits the commit
\* list of the generator is not empty and a release section is rendered.
C27_TaglessTakesRecentCommits ==
  (~tagged /\ Len(repo) >= 1 /\ Len(repo) <= TaglessDepth) =>
    /\ Fetched => Len(commits) >= 1
    /\ pc = "done" => releaseSection # ""

(***************************************************************************)
(* Properties of the checklist of prepare-release.sh (SpecChecks).         *)
(***************************************************************************)

\* the warnings the claim lists: behind the remote, not authenticated,
\* standard-version missing
ListedWarnings == {"remote", "npm-auth", "standard-version"}

\* C28: "All checks passed!" is printed only in runs in which no listed
\* check ended in a warning that the user declined to fix.
C28_PassedOnlyWithoutWarnings ==
  passedPrinted => ~(reply = "n" /\ warned \cap ListedWarnings # {})

\* C29: with user.name or user.email not set, and the required checks
\* passing, the script prints the 'Not configured' warning and goes on to
\* the summary and its end with status 0.
C29_UnsetGitUserContinues ==
  (relPc = "done" /\ checksOk /\ gitUser = "unset") =>
    /\ "git-user" \in warned
    /\ passedPrinted
    /\ relExit = 0

(***************************************************************************)
(* Properties of two invocations on one changelog (SpecConcurrent).        *)
(***************************************************************************)

\* both invocations have written their content
BothWrote ==
  \A p \in Procs : gens[p].pc = "done" /\ gens[p].releaseSection # ""

\* both invocations read the changelog before either wrote it
BothReadFirst ==
  \A p \in Procs :
    gens[p].existingChangelog = readExistingChangelog(before.exists, before.text)

\* the invocations whose release section is in the file
SectionsInFile == {p \in Procs : Includes(fileText, gens[p].releaseSection)}

\* C30: when both invocations read the existing text before either writes,
\* the final file holds only one of the two release sections; in every
\* other order it holds both.
C30_LostUpdateIffInterleaved ==
  BothWrote =>
    IF BothReadFirst THEN Cardinality(SectionsInFile) = 1
    ELSE SectionsInFile = Procs

C30_Witness ==
  /\ BothWrote /\ BothReadFirst
  /\ SectionsInFile = {2}
  /\ before.exists /\ Includes(fileText, before.text) /\ before.text # ""

====
